---- MODULE Spec2Model ----
(***************************************************************************)
(* Intrusive red-black tree (src/src/lib.rs).                              *)
(*                                                                         *)
(* Nodes are externally owned cells addressed by identity; the tree holds  *)
(* a root reference and rewires parent/child links and colour tags.  The   *)
(* node fields are the variables color, val, parent, childs; the tree is   *)
(* the variable root.  Raw pointers are node identities, the null pointer  *)
(* is NIL.  A dereference of a null pointer ends the run in pc = "fault";  *)
(* a loop that can never leave (a cycle of links) ends it in pc = "hang".  *)
(***************************************************************************)
EXTENDS Integers, Sequences, FiniteSets, TLC

\* Number of node cells in memory.
MaxCells == 10
\* Number of cells the caller of Spec uses.
MaxNodes == 5
\* Payloads are drawn from 1..MaxVal.
MaxVal == 3

Node == 1..MaxCells
NIL == 0
Vals == 1..MaxVal
\* RbNode::new(0) in the tests: the key a cell holds before the caller sets it.
UnsetKey == 0

LeftChild == 0
RightChild == 1
NodeDirection == {LeftChild, RightChild}

Red == "Red"
Black == "Black"
NodeColor == {Red, Black}

INITIAL_BLACK_COUNTER == -1

VARIABLES
    color,      \* RbNode.color
    val,        \* RbNode.val (the payload key)
    parent,     \* RbNode.parent
    childs,     \* RbNode.childs[2]
    root,       \* RbTree.root
    status,     \* caller's view of each cell: "fresh", "linked", "removed"
    pc,         \* "idle", "ins_fix", "del_fix", "fault", "hang"
    cur,        \* insert_rebalance: node;  delete_reblance: parent
    nd,         \* delete_reblance: nd
    op,         \* the operation in progress or last completed: kind and argument
    before,     \* in-order node sequence when that operation started
    reuses,     \* how many times the caller handed a removed node to insert
    rotations,  \* calls of rotate_with_parent by that operation so far
    verdict     \* what verify_tree() answered when last called, or "none"

vars == <<color, val, parent, childs, root, status, pc, cur, nd, op, before,
          reuses, rotations, verdict>>

----------------------------------------------------------------------------
(* The memory the tree code works on, as one value. ok turns FALSE when a  *)
(* null pointer is dereferenced.                                           *)
Mem == [color |-> color, val |-> val, parent |-> parent, childs |-> childs,
        root |-> root, rotations |-> rotations, ok |-> TRUE]

\* The memory as a call of insert or delete finds it.
MemAtCall == [Mem EXCEPT !.rotations = 0]

NullDeref(m) == [m EXCEPT !.ok = FALSE]

\* Variant of FromBool with the two branches exchanged.
FromBool_swapped(branch) == IF branch THEN LeftChild ELSE RightChild

\* impl From<bool> for NodeDirection
FromBool(branch) == IF branch THEN RightChild ELSE LeftChild

\* the opposite direction, as computed in rotate_with_parent and delete_reblance
OtherDirection(di) == IF di = LeftChild THEN RightChild ELSE LeftChild

\* PartialOrd::lt on the payload (Test derives PartialOrd over an i32 key)
lt(a, b) == a < b

get_child(m, self, child) == m.childs[self][child]

has_red_child(m, self) ==
    LET left == get_child(m, self, LeftChild)
        right == get_child(m, self, RightChild)
    IN  IF left # NIL /\ m.color[left] = Red THEN TRUE
        ELSE IF right # NIL /\ m.color[right] = Red THEN TRUE
        ELSE FALSE

is_black(m, self) == m.color[self] = Black

is_red(m, self) == m.color[self] = Red

get_parent(m, self) == m.parent[self]

set_color(m, self, c) ==
    IF ~m.ok \/ self = NIL THEN NullDeref(m)
    ELSE [m EXCEPT !.color[self] = c]

get_direction(m, self, p) ==
    IF m.childs[p][LeftChild] = self THEN LeftChild ELSE RightChild

\* Variant of get_the_other_child_of_color that looks at the child on the
\* side di itself.
get_the_other_child_of_color_same_side(m, self, di, c) ==
    LET sel == IF di = LeftChild THEN 0 ELSE 1
        child == m.childs[self][sel]
    IN  IF child = NIL THEN NIL
        ELSE IF m.color[child] = c THEN child ELSE NIL

get_the_other_child_of_color(m, self, di, c) ==
    LET sel == IF di = LeftChild THEN 1 ELSE 0
        child == m.childs[self][sel]
    IN  IF child = NIL THEN NIL
        ELSE IF m.color[child] = c THEN child ELSE NIL

insert_child(m, self, di, node) ==
    IF ~m.ok \/ self = NIL \/ node = NIL THEN NullDeref(m)
    ELSE [m EXCEPT !.childs[self][di] = node, !.parent[node] = self]

set_child(m, self, child, di, c) ==
    IF ~m.ok \/ self = NIL THEN NullDeref(m)
    ELSE IF child # NIL
         THEN [m EXCEPT !.childs[self][di] = child,
                        !.parent[child] = self,
                        !.color[child] = c]
         ELSE [m EXCEPT !.childs[self][di] = child]

\* Variant of set_child_without_color that leaves the child's parent link.
set_child_without_color_no_parent(m, self, child, di) ==
    IF ~m.ok \/ self = NIL THEN NullDeref(m)
    ELSE [m EXCEPT !.childs[self][di] = child]

set_child_without_color(m, self, child, di) ==
    IF ~m.ok \/ self = NIL THEN NullDeref(m)
    ELSE IF child # NIL
         THEN [m EXCEPT !.childs[self][di] = child, !.parent[child] = self]
         ELSE [m EXCEPT !.childs[self][di] = child]

rotate_with_parent(m, self, p, di, c) ==
    IF ~m.ok \/ self = NIL \/ p = NIL THEN NullDeref(m)
    ELSE LET other == OtherDirection(di)
             m1 == set_child_without_color(m, p, m.childs[self][other], di)
             m2 == set_child(m1, self, p, other, c)
         IN  [m2 EXCEPT !.rotations = @ + 1]

\* Variant of inherit_parent that takes node's place but keeps its own colour.
inherit_parent_keep_color(m, self, node) ==
    IF ~m.ok \/ self = NIL \/ node = NIL THEN NullDeref(m)
    ELSE LET p == m.parent[node]
             m1 == [m EXCEPT !.parent[self] = p]
         IN  IF p = NIL THEN [m1 EXCEPT !.root = self]
             ELSE [m1 EXCEPT !.childs[p][get_direction(m1, node, p)] = self]

inherit_parent(m, self, node) ==
    IF ~m.ok \/ self = NIL \/ node = NIL THEN NullDeref(m)
    ELSE LET p == m.parent[node]
             m1 == [m EXCEPT !.parent[self] = p, !.color[self] = m.color[node]]
         IN  IF p = NIL THEN [m1 EXCEPT !.root = self]
             ELSE [m1 EXCEPT !.childs[p][get_direction(m1, node, p)] = self]

hook_old_child(m, self, child, di) ==
    IF ~m.ok \/ self = NIL THEN NullDeref(m)
    ELSE IF child # NIL
         THEN [m EXCEPT !.childs[self][di] = child, !.parent[child] = self]
         ELSE [m EXCEPT !.childs[self][di] = child]

----------------------------------------------------------------------------
(* RbTree::insert                                                          *)

\* Variant of insert_descend that branches on !(node < p): ties go right.
RECURSIVE insert_descend_ties_right(_, _, _, _, _, _)
insert_descend_ties_right(m, node, p, par, branch, fuel) ==
    IF p = NIL THEN [parent |-> par, branch |-> branch, hang |-> FALSE]
    ELSE IF fuel = 0 THEN [parent |-> par, branch |-> branch, hang |-> TRUE]
    ELSE LET b == ~lt(m.val[node], m.val[p])
         IN  insert_descend_ties_right(m, node, get_child(m, p, FromBool(b)),
                                       p, b, fuel - 1)

\* The descent loop of insert: from p downwards until a null slot is found.
\* fuel counts the nodes still unvisited; a descent that outlives it is on a
\* cycle of links and never ends.
RECURSIVE insert_descend(_, _, _, _, _, _)
insert_descend(m, node, p, par, branch, fuel) ==
    IF p = NIL THEN [parent |-> par, branch |-> branch, hang |-> FALSE]
    ELSE IF fuel = 0 THEN [parent |-> par, branch |-> branch, hang |-> TRUE]
    ELSE LET b == lt(m.val[p], m.val[node])
         IN  insert_descend(m, node, get_child(m, p, FromBool(b)), p, b, fuel - 1)

\* Variant of insert_link that leaves a node linked as root Red.
insert_link_root_red(m, node, par, branch) ==
    IF par = NIL
    THEN [m EXCEPT !.root = node]
    ELSE insert_child(m, par, FromBool(branch), node)

\* What insert does once the slot is found, up to the call of insert_rebalance.
insert_link(m, node, par, branch) ==
    IF par = NIL
    THEN [m EXCEPT !.root = node, !.color[node] = Black]
    ELSE insert_child(m, par, FromBool(branch), node)

\* Variant of insert_rebalance_step that, after the Red-uncle recolouring,
\* continues with the same node instead of the grandparent.
insert_rebalance_step_stay(m, node) ==
    LET p == get_parent(m, node) IN
    IF p = NIL
    THEN [m |-> [set_color(m, node, Black) EXCEPT !.root = node],
          node |-> node, done |-> TRUE]
    ELSE IF is_black(m, p)
    THEN [m |-> m, node |-> node, done |-> TRUE]
    ELSE
      LET gp == get_parent(m, p)
          ndir == get_direction(m, node, p)
      IN
      IF gp = NIL
      THEN [m |-> NullDeref(m), node |-> node, done |-> TRUE]
      ELSE
        LET pd == get_direction(m, p, gp)
            uncle == get_the_other_child_of_color(m, gp, pd, Red)
        IN
        IF uncle # NIL
        THEN [m |-> set_color(set_color(set_color(m, p, Black), uncle, Black),
                              gp, Red),
              node |-> node, done |-> FALSE]
        ELSE
          LET m1 == IF ndir # pd
                    THEN rotate_with_parent(m, node, p, ndir, Red)
                    ELSE m
              p1 == IF ndir # pd THEN node ELSE p
              nd1 == IF ndir # pd THEN pd ELSE ndir
              m2 == inherit_parent(m1, p1, gp)
          IN  [m |-> rotate_with_parent(m2, p1, gp, nd1, Red),
               node |-> node, done |-> TRUE]

\* Variant of insert_rebalance_step that breaks without rotating when the
\* uncle is Black or absent.
insert_rebalance_step_no_rotation(m, node) ==
    LET p == get_parent(m, node) IN
    IF p = NIL
    THEN [m |-> [set_color(m, node, Black) EXCEPT !.root = node],
          node |-> node, done |-> TRUE]
    ELSE IF is_black(m, p)
    THEN [m |-> m, node |-> node, done |-> TRUE]
    ELSE
      LET gp == get_parent(m, p) IN
      IF gp = NIL
      THEN [m |-> NullDeref(m), node |-> node, done |-> TRUE]
      ELSE
        LET pd == get_direction(m, p, gp)
            uncle == get_the_other_child_of_color(m, gp, pd, Red)
        IN
        IF uncle # NIL
        THEN [m |-> set_color(set_color(set_color(m, p, Black), uncle, Black),
                              gp, Red),
              node |-> gp, done |-> FALSE]
        ELSE [m |-> m, node |-> node, done |-> TRUE]

\* Variant of insert_rebalance_step that rotates the parent up past the
\* grandparent at once, also when node is the parent's inner child.
insert_rebalance_step_one_rotation(m, node) ==
    LET p == get_parent(m, node) IN
    IF p = NIL
    THEN [m |-> [set_color(m, node, Black) EXCEPT !.root = node],
          node |-> node, done |-> TRUE]
    ELSE IF is_black(m, p)
    THEN [m |-> m, node |-> node, done |-> TRUE]
    ELSE
      LET gp == get_parent(m, p) IN
      IF gp = NIL
      THEN [m |-> NullDeref(m), node |-> node, done |-> TRUE]
      ELSE
        LET pd == get_direction(m, p, gp)
            uncle == get_the_other_child_of_color(m, gp, pd, Red)
        IN
        IF uncle # NIL
        THEN [m |-> set_color(set_color(set_color(m, p, Black), uncle, Black),
                              gp, Red),
              node |-> gp, done |-> FALSE]
        ELSE
          LET m2 == inherit_parent(m, p, gp)
          IN  [m |-> rotate_with_parent(m2, p, gp, pd, Red),
               node |-> node, done |-> TRUE]

\* Variant of insert_rebalance_step whose Red-uncle recolouring leaves the
\* uncle Red.
insert_rebalance_step_keep_uncle(m, node) ==
    LET p == get_parent(m, node) IN
    IF p = NIL
    THEN [m |-> [set_color(m, node, Black) EXCEPT !.root = node],
          node |-> node, done |-> TRUE]
    ELSE IF is_black(m, p)
    THEN [m |-> m, node |-> node, done |-> TRUE]
    ELSE
      LET gp == get_parent(m, p)
          ndir == get_direction(m, node, p)
      IN
      IF gp = NIL
      THEN [m |-> NullDeref(m), node |-> node, done |-> TRUE]
      ELSE
        LET pd == get_direction(m, p, gp)
            uncle == get_the_other_child_of_color(m, gp, pd, Red)
        IN
        IF uncle # NIL
        THEN [m |-> set_color(set_color(m, p, Black), gp, Red),
              node |-> gp, done |-> FALSE]
        ELSE
          LET m1 == IF ndir # pd
                    THEN rotate_with_parent(m, node, p, ndir, Red)
                    ELSE m
              p1 == IF ndir # pd THEN node ELSE p
              nd1 == IF ndir # pd THEN pd ELSE ndir
              m2 == inherit_parent(m1, p1, gp)
          IN  [m |-> rotate_with_parent(m2, p1, gp, nd1, Red),
               node |-> node, done |-> TRUE]

\* One iteration of the loop of insert_rebalance, entered with `node`.
\* done: the iteration ended in break; otherwise node is the next iteration's.
insert_rebalance_step(m, node) ==
    LET p == get_parent(m, node) IN
    IF p = NIL
    THEN [m |-> [set_color(m, node, Black) EXCEPT !.root = node],
          node |-> node, done |-> TRUE]
    ELSE IF is_black(m, p)
    THEN [m |-> m, node |-> node, done |-> TRUE]
    ELSE
      LET gp == get_parent(m, p)
          ndir == get_direction(m, node, p)
      IN
      IF gp = NIL
      THEN [m |-> NullDeref(m), node |-> node, done |-> TRUE]
      ELSE
        LET pd == get_direction(m, p, gp)
            uncle == get_the_other_child_of_color(m, gp, pd, Red)
        IN
        IF uncle # NIL
        THEN [m |-> set_color(set_color(set_color(m, p, Black), uncle, Black),
                              gp, Red),
              node |-> gp, done |-> FALSE]
        ELSE
          LET m1 == IF ndir # pd
                    THEN rotate_with_parent(m, node, p, ndir, Red)
                    ELSE m
              p1 == IF ndir # pd THEN node ELSE p
              nd1 == IF ndir # pd THEN pd ELSE ndir
              m2 == inherit_parent(m1, p1, gp)
          IN  [m |-> rotate_with_parent(m2, p1, gp, nd1, Red),
               node |-> node, done |-> TRUE]

----------------------------------------------------------------------------
(* RbTree::delete                                                          *)

\* Variant of delete_far_left that stops at x: the right child stands in for
\* the successor.
delete_far_left_none(m, x, fuel) == IF fuel = 0 THEN NIL ELSE x

\* The successor search of delete: the leftmost node below x (far_left).
\* NIL when the walk outlives its fuel, that is when it is on a cycle.
RECURSIVE delete_far_left(_, _, _)
delete_far_left(m, x, fuel) ==
    IF fuel = 0 THEN NIL
    ELSE IF m.childs[x][LeftChild] = NIL THEN x
    ELSE delete_far_left(m, m.childs[x][LeftChild], fuel - 1)

\* Variant of delete_two_children that asks for delete_reblance whenever the
\* successor has no right child, whatever its colour.
delete_two_children_fix_red(m, node, left, right, far_left) ==
    LET near_right == m.childs[far_left][RightChild]
        need_fix == near_right = NIL
        fix0 == IF far_left # right THEN m.parent[far_left] ELSE far_left
        di == IF far_left # right THEN LeftChild ELSE RightChild
        m1 == IF far_left # right
              THEN hook_old_child(
                       set_child(m, fix0, near_right, LeftChild, Black),
                       far_left, right, RightChild)
              ELSE IF near_right # NIL
                   THEN [m EXCEPT !.color[near_right] = Black]
                   ELSE m
        m2 == inherit_parent(m1, far_left, node)
    IN  [m |-> hook_old_child(m2, far_left, left, LeftChild),
         fix |-> IF need_fix THEN fix0 ELSE NIL,
         di |-> di, hang |-> FALSE]

\* Variant of delete_two_children that never asks for delete_reblance.
delete_two_children_nofix(m, node, left, right, far_left) ==
    LET near_right == m.childs[far_left][RightChild]
        fix0 == IF far_left # right THEN m.parent[far_left] ELSE far_left
        di == IF far_left # right THEN LeftChild ELSE RightChild
        m1 == IF far_left # right
              THEN hook_old_child(
                       set_child(m, fix0, near_right, LeftChild, Black),
                       far_left, right, RightChild)
              ELSE IF near_right # NIL
                   THEN [m EXCEPT !.color[near_right] = Black]
                   ELSE m
        m2 == inherit_parent(m1, far_left, node)
    IN  [m |-> hook_old_child(m2, far_left, left, LeftChild),
         fix |-> NIL, di |-> di, hang |-> FALSE]

\* Variant of delete_two_children that exchanges the payloads of node and its
\* successor on top of the relinking.
delete_two_children_copy(m, node, left, right, far_left) ==
    LET near_right == m.childs[far_left][RightChild]
        need_fix == is_black(m, far_left) /\ near_right = NIL
        fix0 == IF far_left # right THEN m.parent[far_left] ELSE far_left
        di == IF far_left # right THEN LeftChild ELSE RightChild
        m1 == IF far_left # right
              THEN hook_old_child(
                       set_child(m, fix0, near_right, LeftChild, Black),
                       far_left, right, RightChild)
              ELSE IF near_right # NIL
                   THEN [m EXCEPT !.color[near_right] = Black]
                   ELSE m
        m2 == inherit_parent(m1, far_left, node)
        m3 == hook_old_child(m2, far_left, left, LeftChild)
    IN  [m |-> [m3 EXCEPT !.val[node] = m.val[far_left],
                          !.val[far_left] = m.val[node]],
         fix |-> IF need_fix THEN fix0 ELSE NIL,
         di |-> di, hang |-> FALSE]

\* Variant of delete_two_children that always reports the deficit in a left
\* slot.
delete_two_children_left_slot(m, node, left, right, far_left) ==
    LET near_right == m.childs[far_left][RightChild]
        need_fix == is_black(m, far_left) /\ near_right = NIL
        fix0 == IF far_left # right THEN m.parent[far_left] ELSE far_left
        m1 == IF far_left # right
              THEN hook_old_child(
                       set_child(m, fix0, near_right, LeftChild, Black),
                       far_left, right, RightChild)
              ELSE IF near_right # NIL
                   THEN [m EXCEPT !.color[near_right] = Black]
                   ELSE m
        m2 == inherit_parent(m1, far_left, node)
    IN  [m |-> hook_old_child(m2, far_left, left, LeftChild),
         fix |-> IF need_fix THEN fix0 ELSE NIL,
         di |-> LeftChild, hang |-> FALSE]

\* The two-children case of delete, given the successor far_left.
delete_two_children(m, node, left, right, far_left) ==
    LET near_right == m.childs[far_left][RightChild]
        need_fix == is_black(m, far_left) /\ near_right = NIL
        fix0 == IF far_left # right THEN m.parent[far_left] ELSE far_left
        di == IF far_left # right THEN LeftChild ELSE RightChild
        m1 == IF far_left # right
              THEN hook_old_child(
                       set_child(m, fix0, near_right, LeftChild, Black),
                       far_left, right, RightChild)
              ELSE IF near_right # NIL
                   THEN [m EXCEPT !.color[near_right] = Black]
                   ELSE m
        m2 == inherit_parent(m1, far_left, node)
    IN  [m |-> hook_old_child(m2, far_left, left, LeftChild),
         fix |-> IF need_fix THEN fix0 ELSE NIL,
         di |-> di, hang |-> FALSE]

\* delete up to the call of delete_reblance: the unlinking of node, and the
\* place (fix, di) of the black-height deficit, fix = NIL when there is none.
delete_unlink(m, node) ==
    LET left == m.childs[node][LeftChild]
        right == m.childs[node][RightChild]
    IN
    IF left = NIL
    THEN IF right # NIL
         THEN [m |-> inherit_parent(m, right, node),
               fix |-> NIL, di |-> LeftChild, hang |-> FALSE]
         ELSE LET p == get_parent(m, node) IN
              IF p = NIL
              THEN [m |-> [m EXCEPT !.root = NIL],
                    fix |-> NIL, di |-> LeftChild, hang |-> FALSE]
              ELSE LET di == get_direction(m, node, p) IN
                   [m |-> [m EXCEPT !.childs[p][di] = NIL],
                    fix |-> IF is_black(m, node) THEN p ELSE NIL,
                    di |-> di, hang |-> FALSE]
    ELSE IF right = NIL
    THEN [m |-> inherit_parent(m, left, node),
          fix |-> NIL, di |-> LeftChild, hang |-> FALSE]
    ELSE LET far_left == delete_far_left(m, right, MaxCells + 1) IN
         IF far_left = NIL
         THEN [m |-> m, fix |-> NIL, di |-> LeftChild, hang |-> TRUE]
         ELSE delete_two_children(m, node, left, right, far_left)

\* The colour of a possibly absent node, as delete_reblance reads it.
color_or_black(m, n) == IF n = NIL THEN Black ELSE m.color[n]

\* Variant of delete_red_sibling that leaves parent Black below the sibling.
delete_red_sibling_parent_black(m, par, s, sd) ==
    rotate_with_parent(inherit_parent(m, s, par), s, par, sd, Black)

\* The Red-sibling prelude of a delete_reblance iteration: s is rotated up
\* past parent.
delete_red_sibling(m, par, s, sd) ==
    rotate_with_parent(inherit_parent(m, s, par), s, par, sd, Red)

\* The preliminary rotation of a delete_reblance iteration: near, the child
\* of s on the deficit's side, is rotated up past s.
delete_near_rotation(m, s, near, ndir) ==
    rotate_with_parent(inherit_parent(m, near, s), near, s, ndir, Red)

\* Variant of delete_sibling_cases that leaves a sibling with two Black
\* children Black.
delete_sibling_cases_keep_sibling(m, par, ndir, sd, s) ==
    IF ~m.ok \/ s = NIL
    THEN [m |-> NullDeref(m), parent |-> par, nd |-> ndir, done |-> TRUE]
    ELSE
      LET left == m.childs[s][LeftChild]
          left_color == color_or_black(m, left)
          right == m.childs[s][RightChild]
          right_color == color_or_black(m, right)
          sc == [d \in NodeDirection |-> IF d = LeftChild THEN left ELSE right]
          scc == [d \in NodeDirection |->
                     IF d = LeftChild THEN left_color ELSE right_color]
      IN
      IF left_color = Black /\ right_color = Black
      THEN LET m1 == m
               node == par
           IN  IF node # m1.root /\ is_black(m1, node)
               THEN IF m1.parent[node] = NIL
                    THEN [m |-> NullDeref(m1), parent |-> par, nd |-> ndir,
                          done |-> TRUE]
                    ELSE [m |-> m1, parent |-> m1.parent[node],
                          nd |-> get_direction(m1, node, m1.parent[node]),
                          done |-> FALSE]
               ELSE [m |-> set_color(m1, node, Black), parent |-> par,
                     nd |-> ndir, done |-> TRUE]
      ELSE
        LET pre == scc[sd] = Black
            m1 == IF pre
                  THEN rotate_with_parent(inherit_parent(m, sc[ndir], s),
                                          sc[ndir], s, ndir, Red)
                  ELSE m
            s1 == IF pre /\ m1.ok THEN m1.parent[s] ELSE s
            m2 == rotate_with_parent(inherit_parent(m1, s1, par),
                                     s1, par, sd, Black)
            sdc == IF m2.ok THEN m2.childs[s1][sd] ELSE NIL
            m3 == IF sdc # NIL THEN [m2 EXCEPT !.color[sdc] = Black] ELSE m2
        IN  [m |-> set_color(m3, m3.root, Black), parent |-> par,
             nd |-> ndir, done |-> TRUE]

\* Variant of delete_sibling_cases that leaves the colour of the promoted
\* node's far child as the rotation left it.
delete_sibling_cases_far_red(m, par, ndir, sd, s) ==
    IF ~m.ok \/ s = NIL
    THEN [m |-> NullDeref(m), parent |-> par, nd |-> ndir, done |-> TRUE]
    ELSE
      LET left == m.childs[s][LeftChild]
          left_color == color_or_black(m, left)
          right == m.childs[s][RightChild]
          right_color == color_or_black(m, right)
          sc == [d \in NodeDirection |-> IF d = LeftChild THEN left ELSE right]
          scc == [d \in NodeDirection |->
                     IF d = LeftChild THEN left_color ELSE right_color]
      IN
      IF left_color = Black /\ right_color = Black
      THEN LET m1 == [m EXCEPT !.color[s] = Red]
               node == par
           IN  IF node # m1.root /\ is_black(m1, node)
               THEN IF m1.parent[node] = NIL
                    THEN [m |-> NullDeref(m1), parent |-> par, nd |-> ndir,
                          done |-> TRUE]
                    ELSE [m |-> m1, parent |-> m1.parent[node],
                          nd |-> get_direction(m1, node, m1.parent[node]),
                          done |-> FALSE]
               ELSE [m |-> set_color(m1, node, Black), parent |-> par,
                     nd |-> ndir, done |-> TRUE]
      ELSE
        LET pre == scc[sd] = Black
            m1 == IF pre
                  THEN rotate_with_parent(inherit_parent(m, sc[ndir], s),
                                          sc[ndir], s, ndir, Red)
                  ELSE m
            s1 == IF pre /\ m1.ok THEN m1.parent[s] ELSE s
            m2 == rotate_with_parent(inherit_parent(m1, s1, par),
                                     s1, par, sd, Black)
            sdc == IF m2.ok THEN m2.childs[s1][sd] ELSE NIL
            m3 == m2
        IN  [m |-> set_color(m3, m3.root, Black), parent |-> par,
             nd |-> ndir, done |-> TRUE]

\* Variant of delete_sibling_cases that decides on the preliminary rotation
\* by the colour of the child of s on the deficit's side.
delete_sibling_cases_near_test(m, par, ndir, sd, s) ==
    IF ~m.ok \/ s = NIL
    THEN [m |-> NullDeref(m), parent |-> par, nd |-> ndir, done |-> TRUE]
    ELSE
      LET left == m.childs[s][LeftChild]
          left_color == color_or_black(m, left)
          right == m.childs[s][RightChild]
          right_color == color_or_black(m, right)
          sc == [d \in NodeDirection |-> IF d = LeftChild THEN left ELSE right]
          scc == [d \in NodeDirection |->
                     IF d = LeftChild THEN left_color ELSE right_color]
      IN
      IF left_color = Black /\ right_color = Black
      THEN LET m1 == [m EXCEPT !.color[s] = Red]
               node == par
           IN  IF node # m1.root /\ is_black(m1, node)
               THEN IF m1.parent[node] = NIL
                    THEN [m |-> NullDeref(m1), parent |-> par, nd |-> ndir,
                          done |-> TRUE]
                    ELSE [m |-> m1, parent |-> m1.parent[node],
                          nd |-> get_direction(m1, node, m1.parent[node]),
                          done |-> FALSE]
               ELSE [m |-> set_color(m1, node, Black), parent |-> par,
                     nd |-> ndir, done |-> TRUE]
      ELSE
        LET pre == scc[ndir] = Black
            m1 == IF pre
                  THEN delete_near_rotation(m, s, sc[ndir], ndir)
                  ELSE m
            s1 == IF pre /\ m1.ok THEN m1.parent[s] ELSE s
            m2 == rotate_with_parent(inherit_parent(m1, s1, par),
                                     s1, par, sd, Black)
            sdc == IF m2.ok THEN m2.childs[s1][sd] ELSE NIL
            m3 == IF sdc # NIL THEN [m2 EXCEPT !.color[sdc] = Black] ELSE m2
        IN  [m |-> set_color(m3, m3.root, Black), parent |-> par,
             nd |-> ndir, done |-> TRUE]

\* The rest of a delete_reblance iteration, entered with the sibling s.
delete_sibling_cases(m, par, ndir, sd, s) ==
    IF ~m.ok \/ s = NIL
    THEN [m |-> NullDeref(m), parent |-> par, nd |-> ndir, done |-> TRUE]
    ELSE
      LET left == m.childs[s][LeftChild]
          left_color == color_or_black(m, left)
          right == m.childs[s][RightChild]
          right_color == color_or_black(m, right)
          sc == [d \in NodeDirection |-> IF d = LeftChild THEN left ELSE right]
          scc == [d \in NodeDirection |->
                     IF d = LeftChild THEN left_color ELSE right_color]
      IN
      IF left_color = Black /\ right_color = Black
      THEN LET m1 == [m EXCEPT !.color[s] = Red]
               node == par
           IN  IF node # m1.root /\ is_black(m1, node)
               THEN IF m1.parent[node] = NIL
                    THEN [m |-> NullDeref(m1), parent |-> par, nd |-> ndir,
                          done |-> TRUE]
                    ELSE [m |-> m1, parent |-> m1.parent[node],
                          nd |-> get_direction(m1, node, m1.parent[node]),
                          done |-> FALSE]
               ELSE [m |-> set_color(m1, node, Black), parent |-> par,
                     nd |-> ndir, done |-> TRUE]
      ELSE
        LET pre == scc[sd] = Black
            m1 == IF pre
                  THEN delete_near_rotation(m, s, sc[ndir], ndir)
                  ELSE m
            s1 == IF pre /\ m1.ok THEN m1.parent[s] ELSE s
            m2 == rotate_with_parent(inherit_parent(m1, s1, par),
                                     s1, par, sd, Black)
            sdc == IF m2.ok THEN m2.childs[s1][sd] ELSE NIL
            m3 == IF sdc # NIL THEN [m2 EXCEPT !.color[sdc] = Black] ELSE m2
        IN  [m |-> set_color(m3, m3.root, Black), parent |-> par,
             nd |-> ndir, done |-> TRUE]

\* One iteration of the loop of delete_reblance, entered with (parent, nd);
\* the iteration that breaks also does the colouring that follows the loop.
delete_reblance_step(m, par, ndir) ==
    LET sd == OtherDirection(ndir)
        s == m.childs[par][sd]
        red == color_or_black(m, s) = Red
        m1 == IF red THEN delete_red_sibling(m, par, s, sd) ELSE m
        s1 == IF red /\ m1.ok THEN m1.childs[par][sd] ELSE s
    IN  delete_sibling_cases(m1, par, ndir, sd, s1)

----------------------------------------------------------------------------
(* Walks and checks over the linked structure                              *)

\* The nodes met by following child links from n, at most `fuel` levels deep
\* (every node of an acyclic structure lies within MaxCells levels).
RECURSIVE Subtree(_, _, _)
Subtree(m, n, fuel) ==
    IF n = NIL \/ fuel = 0 THEN {}
    ELSE {n} \cup Subtree(m, m.childs[n][LeftChild], fuel - 1)
             \cup Subtree(m, m.childs[n][RightChild], fuel - 1)

Reachable(m) == Subtree(m, m.root, MaxCells)

\* In-order walk: left subtree, node, right subtree.
RECURSIVE InorderFrom(_, _, _)
InorderFrom(m, n, fuel) ==
    IF n = NIL \/ fuel = 0 THEN << >>
    ELSE InorderFrom(m, m.childs[n][LeftChild], fuel - 1)
         \o << n >>
         \o InorderFrom(m, m.childs[n][RightChild], fuel - 1)

Inorder(m) == InorderFrom(m, m.root, MaxCells)

\* traversal_preorder: node, left subtree, right subtree.
RECURSIVE traversal_preorder(_, _, _)
traversal_preorder(m, n, fuel) ==
    IF n = NIL \/ fuel = 0 THEN << >>
    ELSE << n >>
         \o traversal_preorder(m, m.childs[n][LeftChild], fuel - 1)
         \o traversal_preorder(m, m.childs[n][RightChild], fuel - 1)

----------------------------------------------------------------------------
(* RbTree::verify_tree                                                     *)

\* verify_properties: returns the answer and the black_count cell as the call
\* leaves it. A recursion deeper than any acyclic structure never returns.
RECURSIVE verify_properties(_, _, _, _, _)
verify_properties(m, node, black_count, current_black_count, fuel) ==
    IF node = NIL
    THEN LET bc == IF black_count = INITIAL_BLACK_COUNTER
                   THEN current_black_count ELSE black_count
         IN  [ok |-> bc = current_black_count, black_count |-> bc]
    ELSE IF fuel = 0 THEN [ok |-> FALSE, black_count |-> black_count]
    ELSE IF is_red(m, node) /\ has_red_child(m, node)
    THEN [ok |-> FALSE, black_count |-> black_count]
    ELSE LET cbc == IF is_red(m, node) THEN current_black_count
                    ELSE current_black_count + 1
             l == verify_properties(m, m.childs[node][LeftChild],
                                    black_count, cbc, fuel - 1)
         IN  IF ~l.ok THEN l
             ELSE verify_properties(m, m.childs[node][RightChild],
                                    l.black_count, cbc, fuel - 1)

\* bst_traversal: left and right are the nodes bounding node's payload.
RECURSIVE bst_traversal(_, _, _, _, _)
bst_traversal(m, node, left, right, fuel) ==
    IF node = NIL THEN TRUE
    ELSE IF fuel = 0 THEN FALSE
    ELSE IF left # NIL /\ m.val[node] < m.val[left] THEN FALSE
    ELSE IF right # NIL /\ m.val[node] > m.val[right] THEN FALSE
    ELSE /\ bst_traversal(m, m.childs[node][LeftChild], left, node, fuel - 1)
         /\ bst_traversal(m, m.childs[node][RightChild], node, right, fuel - 1)

verify_bst(m) == bst_traversal(m, m.root, NIL, NIL, MaxCells + 1)

verify_tree(m) ==
    IF m.root = NIL THEN TRUE
    ELSE /\ verify_properties(m, m.root, INITIAL_BLACK_COUNTER, 0,
                              MaxCells + 1).ok
         /\ verify_bst(m)

\* The answer of verify_tree as the assert at the end of insert and delete
\* sees it.
Verdict(m) == IF verify_tree(m) THEN "true" ELSE "false"

----------------------------------------------------------------------------
(* Actions                                                                 *)

Install(m) ==
    /\ color' = m.color
    /\ val' = m.val
    /\ parent' = m.parent
    /\ childs' = m.childs
    /\ root' = m.root
    /\ rotations' = m.rotations

Halt(why) ==
    /\ pc' = why
    /\ verdict' = "none"
    /\ UNCHANGED <<color, val, parent, childs, root, status, cur, nd,
                   rotations>>

\* RbNode::set on a cell not yet handed to the tree. Cells are taken in the
\* order of their identities and one at a time (the loop of test::stress).
set(n, k) ==
    /\ pc = "idle"
    /\ n <= MaxNodes
    /\ status[n] = "fresh"
    /\ val[n] = UnsetKey
    /\ \A o \in Node : status[o] = "fresh" => val[o] = UnsetKey /\ n <= o
    /\ val' = [val EXCEPT ![n] = k]
    /\ UNCHANGED <<color, parent, childs, root, status, pc, cur, nd, op, before,
                   reuses, rotations, verdict>>

\* insert(node) up to the call of insert_rebalance.
DoInsert(n, kind) ==
    LET d == insert_descend(MemAtCall, n, root, NIL, FALSE, MaxCells + 1)
        m == insert_link(MemAtCall, n, d.parent, d.branch)
    IN  /\ op' = [kind |-> kind, arg |-> n]
        /\ before' = Inorder(Mem)
        /\ IF d.hang THEN Halt("hang")
           ELSE /\ Install(m)
                /\ status' = [status EXCEPT ![n] = "linked"]
                /\ pc' = IF d.parent = NIL THEN "idle" ELSE "ins_fix"
                /\ cur' = IF d.parent = NIL THEN NIL ELSE n
                /\ nd' = LeftChild
                /\ verdict' = IF d.parent = NIL THEN Verdict(m) ELSE "none"

\* insert of a freshly constructed node carrying its payload.
Insert(n) ==
    /\ pc = "idle"
    /\ status[n] = "fresh"
    /\ val[n] # UnsetKey
    /\ DoInsert(n, "insert")
    /\ UNCHANGED reuses

\* One iteration of insert_rebalance.
InsertRebalance ==
    /\ pc = "ins_fix"
    /\ LET r == insert_rebalance_step(Mem, cur)
       IN  IF ~r.m.ok THEN Halt("fault")
           ELSE /\ Install(r.m)
                /\ pc' = IF r.done THEN "idle" ELSE "ins_fix"
                /\ cur' = IF r.done THEN NIL ELSE r.node
                /\ verdict' = IF r.done THEN Verdict(r.m) ELSE "none"
                /\ UNCHANGED <<status, nd>>
    /\ UNCHANGED <<op, before, reuses>>

\* delete(node) up to the call of delete_reblance.
Delete(n) ==
    /\ pc = "idle"
    /\ status[n] = "linked"
    /\ op' = [kind |-> "delete", arg |-> n]
    /\ before' = Inorder(Mem)
    /\ UNCHANGED reuses
    /\ LET r == delete_unlink(MemAtCall, n)
       IN  IF r.hang THEN Halt("hang")
           ELSE IF ~r.m.ok THEN Halt("fault")
           ELSE /\ Install(r.m)
                /\ status' = [status EXCEPT ![n] = "removed"]
                /\ pc' = IF r.fix # NIL THEN "del_fix" ELSE "idle"
                /\ cur' = r.fix
                /\ nd' = IF r.fix # NIL THEN r.di ELSE LeftChild
                /\ verdict' = IF r.fix # NIL THEN "none" ELSE Verdict(r.m)

\* One iteration of delete_reblance.
DeleteReblance ==
    /\ pc = "del_fix"
    /\ LET r == delete_reblance_step(Mem, cur, nd)
       IN  IF ~r.m.ok THEN Halt("fault")
           ELSE /\ Install(r.m)
                /\ pc' = IF r.done THEN "idle" ELSE "del_fix"
                /\ cur' = IF r.done THEN NIL ELSE r.parent
                /\ nd' = IF r.done THEN LeftChild ELSE r.nd
                /\ verdict' = IF r.done THEN Verdict(r.m) ELSE "none"
                /\ UNCHANGED status
    /\ UNCHANGED <<op, before, reuses>>

\* How many reuses of a removed node one run makes.
MaxReuse == 1

\* insert of a node that delete removed earlier, its fields as delete left them.
Reinsert(n) ==
    /\ pc = "idle"
    /\ status[n] = "removed"
    /\ reuses < MaxReuse
    /\ reuses' = reuses + 1
    /\ DoInsert(n, "reinsert")

\* RbNode::new(0) for every cell, RbTree::new() for the tree.
Init ==
    /\ color = [n \in Node |-> Red]
    /\ val = [n \in Node |-> UnsetKey]
    /\ parent = [n \in Node |-> NIL]
    /\ childs = [n \in Node |-> [d \in NodeDirection |-> NIL]]
    /\ root = NIL
    /\ status = [n \in Node |-> "fresh"]
    /\ pc = "idle"
    /\ cur = NIL
    /\ nd = LeftChild
    /\ op = [kind |-> "none", arg |-> NIL]
    /\ before = << >>
    /\ reuses = 0
    /\ rotations = 0
    /\ verdict = "none"

Next ==
    \/ \E n \in Node, k \in Vals : set(n, k)
    \/ \E n \in Node : Insert(n)
    \/ InsertRebalance
    \/ \E n \in Node : Delete(n)
    \/ DeleteReblance

\* Correct usage: fresh nodes in, linked nodes out.
Spec == Init /\ [][Next]_vars

\* Number of cells the reusing caller owns.
MaxReuseNodes == 4

NextReuse ==
    \/ \E n \in 1..MaxReuseNodes, k \in Vals : set(n, k)
    \/ \E n \in Node : Insert(n)
    \/ InsertRebalance
    \/ \E n \in Node : Delete(n)
    \/ DeleteReblance
    \/ \E n \in Node : Reinsert(n)

\* Usage that also hands removed nodes back to insert.
SpecReuse == Init /\ [][NextReuse]_vars

----------------------------------------------------------------------------
(* Other callers                                                           *)

\* Payloads of a caller that never repeats a payload.
DistinctKeys == 1..MaxNodes

\* RbNode::set with a payload no other cell carries.
setDistinct(n, k) ==
    /\ pc = "idle"
    /\ n <= MaxNodes
    /\ status[n] = "fresh"
    /\ val[n] = UnsetKey
    /\ \A o \in Node : status[o] = "fresh" => val[o] = UnsetKey /\ n <= o
    /\ \A o \in Node : val[o] # k
    /\ val' = [val EXCEPT ![n] = k]
    /\ UNCHANGED <<color, parent, childs, root, status, pc, cur, nd, op, before,
                   reuses, rotations, verdict>>

NextDistinct ==
    \/ \E n \in Node, k \in DistinctKeys : setDistinct(n, k)
    \/ \E n \in Node : Insert(n)
    \/ InsertRebalance
    \/ \E n \in Node : Delete(n)
    \/ DeleteReblance

\* Correct usage with pairwise distinct payloads.
SpecDistinct == Init /\ [][NextDistinct]_vars

\* Largest structure handed to verify_tree on its own.
MaxVerifyNodes == 4

\* A caller that builds any binary tree of coloured nodes, link by link: the
\* structures verify_tree can be asked about.
Graft(n, k, c, p, d) ==
    /\ pc = "idle"
    /\ n <= MaxVerifyNodes
    /\ status[n] = "fresh"
    /\ \A o \in Node : status[o] = "fresh" => n <= o
    /\ \/ p = NIL /\ root = NIL /\ d = LeftChild
       \/ p # NIL /\ status[p] = "linked" /\ childs[p][d] = NIL
    /\ color' = [color EXCEPT ![n] = c]
    /\ val' = [val EXCEPT ![n] = k]
    /\ parent' = [parent EXCEPT ![n] = p]
    /\ childs' = IF p = NIL THEN childs ELSE [childs EXCEPT ![p][d] = n]
    /\ root' = IF p = NIL THEN n ELSE root
    /\ status' = [status EXCEPT ![n] = "linked"]
    /\ op' = [kind |-> "graft", arg |-> n]
    /\ verdict' = "none"
    /\ UNCHANGED <<pc, cur, nd, before, reuses, rotations>>

\* A call of verify_tree().
VerifyTree ==
    /\ pc = "idle"
    /\ verdict = "none"
    /\ verdict' = Verdict(Mem)
    /\ UNCHANGED <<color, val, parent, childs, root, status, pc, cur, nd, op,
                   before, reuses, rotations>>

NextVerify ==
    \/ \E n \in Node, k \in Vals, c \in NodeColor, p \in Node \cup {NIL},
          d \in NodeDirection : Graft(n, k, c, p, d)
    \/ VerifyTree

\* verify_tree over arbitrary coloured binary trees.
SpecVerify == Init /\ [][NextVerify]_vars

----------------------------------------------------------------------------
(* The tree invariants, stated over the structure reachable from root      *)

Linked == {n \in Node : status[n] = "linked"}

Removed == {n \in Node : status[n] = "removed"}

RootBlack(m) == m.root # NIL => m.color[m.root] = Black

NoRedRed(m) ==
    \A n \in Reachable(m) :
        m.color[n] = Red =>
            \A d \in NodeDirection :
                m.childs[n][d] = NIL \/ m.color[m.childs[n][d]] = Black

\* The Black counts of the paths from n down to an absent child.
RECURSIVE PathBlackCounts(_, _, _)
PathBlackCounts(m, n, fuel) ==
    IF n = NIL THEN {0}
    ELSE IF fuel = 0 THEN {-1}
    ELSE LET add == IF m.color[n] = Black THEN 1 ELSE 0
         IN  {c + add : c \in
                 PathBlackCounts(m, m.childs[n][LeftChild], fuel - 1)
                 \cup PathBlackCounts(m, m.childs[n][RightChild], fuel - 1)}

UniformBlackHeight(m) ==
    Cardinality(PathBlackCounts(m, m.root, MaxCells)) = 1

BstOrdered(m) ==
    \A n \in Reachable(m) :
        /\ \A x \in Subtree(m, m.childs[n][LeftChild], MaxCells) :
               m.val[x] <= m.val[n]
        /\ \A x \in Subtree(m, m.childs[n][RightChild], MaxCells) :
               m.val[x] >= m.val[n]

LinksConsistent(m) ==
    /\ m.root # NIL => m.parent[m.root] = NIL
    /\ \A a \in Reachable(m) : \A d \in NodeDirection :
           m.childs[a][d] # NIL => m.parent[m.childs[a][d]] = a
    /\ \A a, b \in Reachable(m) : \A d, e \in NodeDirection :
           (m.childs[a][d] # NIL /\ m.childs[a][d] = m.childs[b][e])
               => (a = b /\ d = e)

\* The nodes above n, following parent links.
RECURSIVE Ancestors(_, _, _)
Ancestors(m, n, fuel) ==
    IF fuel = 0 \/ m.parent[n] = NIL THEN {}
    ELSE {m.parent[n]} \cup Ancestors(m, m.parent[n], fuel - 1)

Without(s, x) == SelectSeq(s, LAMBDA y : y # x)

Range(s) == {s[i] : i \in 1..Len(s)}

----------------------------------------------------------------------------
(* A caller that fills every cell: trees deep enough for every fixup case  *)

\* How many nodes the caller of SpecRun deletes.
MaxRunDeletes == 3

RunKeys == 1..MaxCells

\* RbNode::set by a caller whose payloads form a monotone run: ascending
\* (1, 2, 3, ...) or descending (MaxCells, MaxCells - 1, ...), as the first
\* payload decides.
setRun(n, k) ==
    /\ pc = "idle"
    /\ status[n] = "fresh"
    /\ val[n] = UnsetKey
    /\ \A o \in Node : status[o] = "fresh" => val[o] = UnsetKey /\ n <= o
    /\ IF n = 1 THEN k \in {1, MaxCells}
       ELSE k = (IF val[1] = 1 THEN n ELSE MaxCells + 1 - n)
    /\ val' = [val EXCEPT ![n] = k]
    /\ UNCHANGED <<color, parent, childs, root, status, pc, cur, nd, op, before,
                   reuses, rotations, verdict>>

\* delete by that caller, any linked node at any time, MaxRunDeletes in all.
DeleteRun(n) ==
    /\ Cardinality(Removed) < MaxRunDeletes
    /\ Delete(n)

NextRun ==
    \/ \E n \in Node, k \in RunKeys : setRun(n, k)
    \/ \E n \in Node : Insert(n)
    \/ InsertRebalance
    \/ \E n \in Node : DeleteRun(n)
    \/ DeleteReblance

\* Correct usage over all MaxCells cells.
SpecRun == Init /\ [][NextRun]_vars

----------------------------------------------------------------------------
(* A caller that builds a tree in any order and then deletes one node      *)

\* How many nodes that caller inserts.
MaxShapeNodes == 7

ShapeKeys == 1..MaxShapeNodes

\* RbNode::set with a payload no other cell carries, before any delete.
setShape(n, k) ==
    /\ pc = "idle"
    /\ n <= MaxShapeNodes
    /\ status[n] = "fresh"
    /\ val[n] = UnsetKey
    /\ \A o \in Node : status[o] = "fresh" => val[o] = UnsetKey /\ n <= o
    /\ \A o \in Node : val[o] # k /\ status[o] # "removed"
    /\ val' = [val EXCEPT ![n] = k]
    /\ UNCHANGED <<color, parent, childs, root, status, pc, cur, nd, op, before,
                   reuses, rotations, verdict>>

\* The one delete of that caller, of any linked node, once nothing is left
\* to insert.
DeleteShape(n) ==
    /\ \A o \in Node : status[o] = "fresh" => val[o] = UnsetKey
    /\ \A o \in Node : status[o] # "removed"
    /\ Delete(n)

NextShape ==
    \/ \E n \in Node, k \in ShapeKeys : setShape(n, k)
    \/ \E n \in Node : Insert(n)
    \/ InsertRebalance
    \/ \E n \in Node : DeleteShape(n)
    \/ DeleteReblance

\* Correct usage: distinct payloads in any order, then one delete.
SpecShape == Init /\ [][NextShape]_vars

----------------------------------------------------------------------------
(* Properties                                                              *)

\* An insert or a delete has run to completion.
Completed == pc = "idle" /\ op.kind \in {"insert", "delete"}

\* C1: under correct usage verify_tree() answers true after every completed
\* insert and delete: no Red node has a Red child, every path from root to an
\* absent child has the same Black count, and BST ordering holds.
C1_VerifyHoldsAfterEveryOp ==
    Completed =>
        /\ verdict = "true"
        /\ NoRedRed(Mem)
        /\ UniformBlackHeight(Mem)
        /\ BstOrdered(Mem)

\* C1 witness: a delete that needed delete_reblance completed on a tree that
\* still holds a Red node and three nodes or more.
C1_Witness ==
    /\ Completed
    /\ op.kind = "delete"
    /\ color[op.arg] = Black
    /\ childs[op.arg] = [d \in NodeDirection |-> NIL]
    /\ Cardinality(Reachable(Mem)) >= 3
    /\ \E n \in Reachable(Mem) : color[n] = Red
    /\ verdict = "true"

\* C2: after any completed insert or delete a non-empty tree has a Black root
\* whose parent link is none.
C2_RootBlackNoParent ==
    (Completed /\ root # NIL) => (color[root] = Black /\ parent[root] = NIL)

\* C2 witness: a completed operation moved the root to a node that was
\* inserted later than the first one and has both children.
C2_Witness ==
    /\ Completed
    /\ root \notin {NIL, 1}
    /\ childs[root][LeftChild] # NIL
    /\ childs[root][RightChild] # NIL
    /\ color[root] = Black
    /\ parent[root] = NIL

\* Only inserts so far, of pairwise distinct payloads.
OnlyDistinctInserts ==
    /\ pc = "idle"
    /\ Removed = {}
    /\ \A a, b \in Linked : a # b => val[a] # val[b]

\* C3: after inserting nodes with distinct payloads into an empty tree, the
\* in-order walk visits exactly the inserted nodes, each once, in strictly
\* ascending payload order.
C3_InorderIsInsertedAscending ==
    OnlyDistinctInserts =>
        LET s == Inorder(Mem)
        IN  /\ Range(s) = Linked
            /\ Len(s) = Cardinality(Linked)
            /\ \A i \in 1..Len(s) : \A j \in 1..Len(s) :
                   i < j => val[s[i]] < val[s[j]]

\* C3 witness: every cell was inserted, none removed, and the payloads did
\* not arrive in ascending order.
C3_Witness ==
    /\ OnlyDistinctInserts
    /\ Linked = 1..MaxNodes
    /\ \E a, b \in Node : a < b /\ val[a] > val[b]
    /\ Len(Inorder(Mem)) = MaxNodes

\* C4: delete(node) removes exactly that node: the in-order sequence is the
\* previous one without the node, and no reachable node links to it.
C4_DeleteRemovesExactlyThatNode ==
    (pc = "idle" /\ op.kind = "delete") =>
        /\ Inorder(Mem) = Without(before, op.arg)
        /\ Len(before) = Len(Inorder(Mem)) + 1
        /\ \A n \in Reachable(Mem) :
               /\ parent[n] # op.arg
               /\ \A d \in NodeDirection : childs[n][d] # op.arg

\* C4 witness: the deleted node had two children and another linked node
\* carries an equal payload.
C4_Witness ==
    /\ pc = "idle"
    /\ op.kind = "delete"
    /\ childs[op.arg][LeftChild] # NIL
    /\ childs[op.arg][RightChild] # NIL
    /\ \E n \in Linked : val[n] = val[op.arg]
    /\ Len(before) = Cardinality(Linked) + 1

\* C5: when inserted nodes (payloads may repeat) are deleted, verify_tree()
\* answers true after each deletion, and after the last one the tree is empty.
C5_DeleteAllLeavesEmptyValidTree ==
    (pc = "idle" /\ op.kind = "delete") =>
        /\ verdict = "true"
        /\ (Linked = {}) = (root = NIL)
        /\ (Linked = {}) => verify_tree(Mem)

\* C5 witness: every cell was inserted and deleted, two of them with the same
\* payload, and the tree is empty.
C5_Witness ==
    /\ pc = "idle"
    /\ op.kind = "delete"
    /\ Removed = 1..MaxNodes
    /\ \E a, b \in Node : a # b /\ val[a] = val[b]
    /\ root = NIL
    /\ verdict = "true"

\* C6: a node removed by delete and handed to insert again leaves a tree that
\* satisfies all invariants.
C6_ReinsertKeepsInvariants ==
    (pc = "idle" /\ op.kind = "reinsert") =>
        /\ LinksConsistent(Mem)
        /\ RootBlack(Mem)
        /\ NoRedRed(Mem)
        /\ UniformBlackHeight(Mem)
        /\ BstOrdered(Mem)

\* C7: verify_tree() answers true exactly when the root is Black, no Red node
\* has a Red child, the Black counts are uniform and BST ordering holds.
C7_VerifyChecksAllFour ==
    verdict # "none" =>
        ((verdict = "true") <=>
            (/\ RootBlack(Mem)
             /\ NoRedRed(Mem)
             /\ UniformBlackHeight(Mem)
             /\ BstOrdered(Mem)))

\* insert has just linked its argument below a parent; insert_rebalance has
\* not yet run.
JustLinked == pc = "ins_fix" /\ op.kind = "insert" /\ cur = op.arg

\* C8 as stated: a new node whose payload equals that of a node met on the
\* descent is linked in that node's right subtree.
C8_TiesGoRight ==
    JustLinked =>
        \A a \in Ancestors(Mem, op.arg, MaxCells) :
            val[a] = val[op.arg] =>
                op.arg \in Subtree(Mem, childs[a][RightChild], MaxCells)

\* C8 amended: ties go to the left. A new node whose payload equals that of a
\* node met on the descent is linked in that node's left subtree; a node with
\* a smaller payload above it has it in its right subtree.
C8_TiesGoLeft ==
    JustLinked =>
        \A a \in Ancestors(Mem, op.arg, MaxCells) :
            /\ val[a] = val[op.arg] =>
                   op.arg \in Subtree(Mem, childs[a][LeftChild], MaxCells)
            /\ val[a] < val[op.arg] =>
                   op.arg \in Subtree(Mem, childs[a][RightChild], MaxCells)

\* C8 witness: the new node was linked two levels or more below a node with
\* an equal payload.
C8_Witness ==
    /\ JustLinked
    /\ \E a \in Ancestors(Mem, op.arg, MaxCells) :
           val[a] = val[op.arg] /\ a # parent[op.arg]

\* C9: insert and delete never change a payload, neither the argument's nor
\* that of a node that is or was in the tree.
C9_PayloadsUntouched ==
    [][\A n \in Node :
          (status[n] # "fresh" \/ status'[n] # "fresh") => val'[n] = val[n]]_vars

\* C9 witness: a two-children delete and its delete_reblance completed.
C9_Witness ==
    /\ pc = "idle"
    /\ op.kind = "delete"
    /\ childs[op.arg][LeftChild] # NIL
    /\ childs[op.arg][RightChild] # NIL
    /\ Cardinality(Linked) >= 3
    /\ \A n \in Linked \cup Removed : val[n] \in Vals

\* C10: after every completed insert and delete the links of the nodes
\* reachable from root are mutually consistent: a child's parent link is its
\* holder, no node sits in two child slots, the root has no parent.
C10_LinksConsistent ==
    Completed => LinksConsistent(Mem)

\* C10 witness: four nodes or more, the root is not the node inserted first,
\* and a node below the root has both children.
C10_Witness ==
    /\ Completed
    /\ Cardinality(Linked) >= 4
    /\ root \notin {NIL, 1}
    /\ \E n \in Linked :
           /\ parent[n] # NIL
           /\ childs[n][LeftChild] # NIL
           /\ childs[n][RightChild] # NIL
    /\ LinksConsistent(Mem)

----------------------------------------------------------------------------
(* Height                                                                  *)

\* The number of nodes on the longest path from n down to an absent child.
RECURSIVE Height(_, _, _)
Height(m, n, fuel) ==
    IF n = NIL \/ fuel = 0 THEN 0
    ELSE LET l == Height(m, m.childs[n][LeftChild], fuel - 1)
             r == Height(m, m.childs[n][RightChild], fuel - 1)
         IN  1 + (IF l > r THEN l ELSE r)

TreeHeight == Height(Mem, root, MaxCells)

TreeSize == Cardinality(Reachable(Mem))

RECURSIVE Pow2(_)
Pow2(e) == IF e = 0 THEN 1 ELSE 2 * Pow2(e - 1)

\* C11: after any sequence of inserts and deletes that leaves n nodes, the
\* longest path from root to an absent child has at most 2*log2(n+1) nodes,
\* that is 2^height <= (n+1)^2.
C11_HeightLogarithmic ==
    Completed => Pow2(TreeHeight) <= (TreeSize + 1) * (TreeSize + 1)

\* C11 witness: a delete left six nodes or more in a tree of height four or
\* more, a size at which a chain would exceed the bound.
C11_Witness ==
    /\ Completed
    /\ op.kind = "delete"
    /\ TreeSize >= 6
    /\ TreeHeight >= 4

----------------------------------------------------------------------------
(* Absent links                                                            *)

\* delete_reblance is about to run an iteration: the sibling it reads first.
FixSibling == childs[cur][OtherDirection(nd)]

\* The sibling whose children the iteration inspects: the one re-fetched
\* after the rotation when the first one is Red.
FixSiblingInspected ==
    IF FixSibling # NIL /\ color[FixSibling] = Red
    THEN childs[FixSibling][nd]
    ELSE FixSibling

\* C12: under correct usage no step follows an absent link: in insert-fixup
\* a Red parent has a parent; in delete-fixup the sibling exists, also the
\* one re-fetched after the Red-sibling rotation, and the near child exists
\* when the sibling has a Red child and its far child is Black.
C12_NoAbsentLinkFollowed ==
    /\ pc # "fault"
    /\ (pc = "ins_fix" /\ parent[cur] # NIL /\ color[parent[cur]] = Red)
           => parent[parent[cur]] # NIL
    /\ pc = "del_fix" =>
           /\ FixSibling # NIL
           /\ FixSiblingInspected # NIL
           /\ LET s == FixSiblingInspected
                  far == childs[s][OtherDirection(nd)]
              IN  (has_red_child(Mem, s) /\ color_or_black(Mem, far) = Black)
                      => childs[s][nd] # NIL

\* C12 witness: delete_reblance is about to run with a Red sibling, whose
\* near child it will re-fetch as the sibling.
C12_Witness ==
    /\ pc = "del_fix"
    /\ FixSibling # NIL
    /\ color[FixSibling] = Red
    /\ childs[FixSibling][nd] # NIL

----------------------------------------------------------------------------
(* Termination                                                             *)

\* How many nodes lie above n.
Depth(m, n) == Cardinality(Ancestors(m, n, MaxCells))

\* C13: every insert and delete runs to completion: the descent and the
\* successor search end (no run hangs or faults), and a fixup iteration either
\* stops or moves its focus strictly closer to the root, so that each fixup
\* loop runs at most as many iterations as its starting point has ancestors.
C13_EveryOperationCompletes ==
    /\ [](pc \in {"idle", "ins_fix", "del_fix"})
    /\ [][(pc = "ins_fix" /\ pc' = "ins_fix")
             => Depth(Mem', cur') < Depth(Mem, cur)]_vars
    /\ [][(pc = "del_fix" /\ pc' = "del_fix")
             => Depth(Mem', cur') < Depth(Mem, cur)]_vars
    /\ [][pc # "idle" => (pc' = "idle" \/ pc' = pc)]_vars

\* C13 witness: delete_reblance, started below a removed leaf, is about to
\* run a further iteration higher up.
C13_Witness ==
    /\ pc = "del_fix"
    /\ op.kind = "delete"
    /\ childs[op.arg] = [d \in NodeDirection |-> NIL]
    /\ cur # parent[op.arg]

----------------------------------------------------------------------------
(* The cases of insert_rebalance                                           *)

\* The slot x hangs in: the child direction under its parent, or "root".
Slot(m, x) ==
    IF m.parent[x] = NIL THEN "root"
    ELSE IF m.childs[m.parent[x]][LeftChild] = x THEN "left" ELSE "right"

\* All the tree invariants at once.
TreeInvariants(m) ==
    /\ RootBlack(m)
    /\ NoRedRed(m)
    /\ UniformBlackHeight(m)
    /\ BstOrdered(m)
    /\ LinksConsistent(m)

\* An iteration of insert_rebalance is about to run with a Red parent that
\* has a parent.
InsFixRedParent ==
    /\ pc = "ins_fix"
    /\ parent[cur] # NIL
    /\ color[parent[cur]] = Red
    /\ parent[parent[cur]] # NIL

InsFixParent == parent[cur]
InsFixGrand == parent[parent[cur]]
InsFixUncle ==
    childs[InsFixGrand][OtherDirection(get_direction(Mem, InsFixParent,
                                                     InsFixGrand))]

InsFixUncleBlack ==
    InsFixRedParent /\ (InsFixUncle = NIL \/ color[InsFixUncle] = Black)

\* node is its parent's inner child: the two directions differ.
InsFixZigZag ==
    get_direction(Mem, cur, InsFixParent)
        # get_direction(Mem, InsFixParent, InsFixGrand)

\* C14: an iteration of insert_rebalance entered with a Red parent and a
\* Black or absent uncle does one rotation (node an outer child) or two (node
\* an inner child) and ends the loop; the promoted node is then Black in the
\* slot the grandparent had, the old grandparent is its Red child and every
\* tree invariant holds. No insert does more than two rotations.
C14_UncleBlackRotatesAndStops ==
    /\ [](op.kind = "insert" => rotations <= 2)
    /\ [][InsFixUncleBlack =>
            LET gp == InsFixGrand
                top == IF InsFixZigZag THEN cur ELSE InsFixParent
            IN  /\ pc' = "idle"
                /\ rotations' = rotations + (IF InsFixZigZag THEN 2 ELSE 1)
                /\ color'[top] = Black
                /\ parent'[top] = parent[gp]
                /\ Slot(Mem', top) = Slot(Mem, gp)
                /\ parent'[gp] = top
                /\ color'[gp] = Red
                /\ TreeInvariants(Mem')
                /\ verdict' = "true"]_vars

\* C14 witness: an insert has just ended with two rotations that promoted
\* the new node itself to a slot below the root.
C14_Witness ==
    /\ Completed
    /\ op.kind = "insert"
    /\ rotations = 2
    /\ color[op.arg] = Black
    /\ parent[op.arg] # NIL
    /\ \E d \in NodeDirection :
           childs[op.arg][d] # NIL /\ color[childs[op.arg][d]] = Red

InsFixUncleRed ==
    InsFixRedParent /\ InsFixUncle # NIL /\ color[InsFixUncle] = Red

\* How many Black nodes the path from the root down to n holds, n included.
BlackAbove(m, n) ==
    Cardinality({a \in Ancestors(m, n, MaxCells) \cup {n} :
                    m.color[a] = Black})

\* The nodes with an absent child: the ends of the root-to-absent-child paths.
PathEnds(m) ==
    {n \in Reachable(m) : \E d \in NodeDirection : m.childs[n][d] = NIL}

\* C15: an iteration of insert_rebalance entered with a Red parent and a Red
\* uncle changes no link; it colours parent and uncle Black and the
\* grandparent Red and no other node, keeps the Black count of every path
\* from the root to an absent child, and goes on with the grandparent as
\* node. Afterwards black-height, order and links are intact, a Red node with
\* a Red child can only be the grandparent's parent with the grandparent, and
\* the root can only be Red if it is the grandparent.
C15_UncleRedRecoloursOnly ==
    [][InsFixUncleRed =>
        LET p == InsFixParent
            gp == InsFixGrand
            u == InsFixUncle
        IN  /\ parent' = parent
            /\ childs' = childs
            /\ root' = root
            /\ val' = val
            /\ color' = [color EXCEPT ![p] = Black, ![u] = Black, ![gp] = Red]
            /\ \A n \in PathEnds(Mem) :
                   BlackAbove(Mem', n) = BlackAbove(Mem, n)
            /\ pc' = "ins_fix"
            /\ cur' = gp
            /\ UniformBlackHeight(Mem')
            /\ BstOrdered(Mem')
            /\ LinksConsistent(Mem')
            /\ \A a \in Reachable(Mem') : \A d \in NodeDirection :
                   (/\ color'[a] = Red
                    /\ childs'[a][d] # NIL
                    /\ color'[childs'[a][d]] = Red) => childs'[a][d] = gp
            /\ ~RootBlack(Mem') => root' = gp]_vars

\* C15 witness: the recolouring has run and left the grandparent, now the
\* node of the next iteration, Red under a Red parent.
C15_Witness ==
    /\ pc = "ins_fix"
    /\ op.kind = "insert"
    /\ cur # op.arg
    /\ color[cur] = Red
    /\ parent[cur] # NIL
    /\ color[parent[cur]] = Red
    /\ \A d \in NodeDirection :
           childs[cur][d] # NIL /\ color[childs[cur][d]] = Black

----------------------------------------------------------------------------
(* The cases of delete                                                     *)

\* This step is a call of delete, and op'.arg the node it is given.
DeleteCalled ==
    /\ pc = "idle"
    /\ op'.kind = "delete"
    /\ status[op'.arg] = "linked"
    /\ status'[op'.arg] = "removed"

ChildrenOf(m, n) == {m.childs[n][d] : d \in NodeDirection} \ {NIL}

\* C16: delete of a node with exactly one child, in a valid tree: that node
\* is Black and its child a Red leaf; the child takes the node's slot and
\* colour, delete_reblance is not run (delete returns at once, no rotation
\* made), and the tree left has a uniform black-height and no Red node with
\* a Red child.
C16_OneChildDeleteNeedsNoFixup ==
    [][(/\ DeleteCalled
        /\ TreeInvariants(Mem)
        /\ Cardinality(ChildrenOf(Mem, op'.arg)) = 1) =>
        LET n == op'.arg
            c == CHOOSE x \in ChildrenOf(Mem, n) : TRUE
        IN  /\ color[n] = Black
            /\ color[c] = Red
            /\ ChildrenOf(Mem, c) = {}
            /\ parent'[c] = parent[n]
            /\ Slot(Mem', c) = Slot(Mem, n)
            /\ color'[c] = color[n]
            /\ pc' = "idle"
            /\ rotations' = 0
            /\ n \notin Reachable(Mem')
            /\ UniformBlackHeight(Mem')
            /\ NoRedRed(Mem')
            /\ verdict' = "true"]_vars

\* C16 witness: delete has just removed a node below the root whose only
\* child now hangs, Black, under the node's former parent.
C16_Witness ==
    /\ Completed
    /\ op.kind = "delete"
    /\ Cardinality(ChildrenOf(Mem, op.arg)) = 1
    /\ parent[op.arg] # NIL
    /\ \A c \in ChildrenOf(Mem, op.arg) :
           /\ status[c] = "linked"
           /\ parent[c] = parent[op.arg]
           /\ color[c] = Black

\* The node that follows n in the in-order walk, NIL when n is the last.
Successor(m, n) ==
    LET io == Inorder(m)
        i == CHOOSE j \in 1..Len(io) : io[j] = n
    IN  IF i = Len(io) THEN NIL ELSE io[i + 1]

\* m with the unlinked node x put back as a Black leaf into slot d of p.
WithBlackLeaf(m, p, d, x) ==
    [m EXCEPT !.childs[p][d] = x, !.parent[x] = p, !.color[x] = Black,
              !.childs[x] = [e \in NodeDirection |-> NIL]]

\* C17: delete of a node with two children, in a valid tree. The in-order
\* successor is spliced out, its right child, if any, taking its slot
\* coloured Black, and put in the node's slot with the node's colour and
\* subtrees. The tree then lacks one Black on some paths exactly when the
\* successor was Black without a right child; the paths one Black short are
\* those through the successor's old slot (the left slot of its old parent,
\* or its own right slot when it was the node's right child); and
\* delete_reblance is run, on that slot, exactly in that case.
C17_TwoChildrenDeleteDeficit ==
    [][(/\ DeleteCalled
        /\ TreeInvariants(Mem)
        /\ Cardinality(ChildrenOf(Mem, op'.arg)) = 2) =>
        LET n == op'.arg
            left == childs[n][LeftChild]
            right == childs[n][RightChild]
            s == Successor(Mem, n)
            sr == childs[s][RightChild]
            direct == s = right
            deficit == color[s] = Black /\ sr = NIL
            dp == IF direct THEN s ELSE parent[s]
            dd == IF direct THEN RightChild ELSE LeftChild
        IN  /\ childs[s][LeftChild] = NIL
            /\ parent'[s] = parent[n]
            /\ Slot(Mem', s) = Slot(Mem, n)
            /\ color'[s] = color[n]
            /\ childs'[s][LeftChild] = left
            /\ parent'[left] = s
            /\ childs'[s][RightChild] = (IF direct THEN sr ELSE right)
            /\ ~direct => parent'[right] = s
            /\ childs'[dp][dd] = sr
            /\ sr # NIL => parent'[sr] = dp /\ color'[sr] = Black
            /\ n \notin Reachable(Mem')
            /\ deficit <=> ~UniformBlackHeight(Mem')
            /\ deficit => UniformBlackHeight(WithBlackLeaf(Mem', dp, dd, n))
            /\ deficit <=> pc' = "del_fix"
            /\ deficit => cur' = dp /\ nd' = dd
            /\ ~deficit => pc' = "idle" /\ verdict' = "true"]_vars

\* C17 witness: delete of a node with two children has spliced out a Black
\* successor that had no right child and was not the node's right child,
\* and delete_reblance is about to run on the left slot of the successor's
\* old parent.
C17_Witness ==
    /\ pc = "del_fix"
    /\ op.kind = "delete"
    /\ Cardinality(ChildrenOf(Mem, op.arg)) = 2
    /\ rotations = 0
    /\ nd = LeftChild
    /\ childs[cur][nd] = NIL
    /\ parent[childs[op.arg][LeftChild]] # op.arg
    /\ parent[childs[op.arg][LeftChild]] # cur

----------------------------------------------------------------------------
(* The cases of delete_reblance                                            *)

\* An iteration of delete_reblance is about to run and finds a Red sibling.
DelFixRedSibling ==
    pc = "del_fix" /\ FixSibling # NIL /\ color[FixSibling] = Red

\* C18: an iteration of delete_reblance that finds a Red sibling. The
\* rotation it starts with puts the sibling, Black, in the parent's slot and
\* the parent, Red, below it on the deficit's side, with the deficit's slot
\* as it was; the sibling fetched again is there and Black (it is the old
\* sibling's near child). The iteration then ends the loop: the deficit is
\* not moved further up, the old sibling is still in the parent's former
\* slot, and every tree invariant holds.
C18_RedSiblingRotatesAndFinishes ==
    [][DelFixRedSibling =>
        LET s == FixSibling
            sd == OtherDirection(nd)
            m1 == delete_red_sibling(Mem, cur, s, sd)
            s1 == m1.childs[cur][sd]
        IN  /\ m1.ok
            /\ m1.rotations = rotations + 1
            /\ m1.parent[s] = parent[cur]
            /\ Slot(m1, s) = Slot(Mem, cur)
            /\ m1.color[s] = Black
            /\ m1.parent[cur] = s
            /\ m1.childs[s][nd] = cur
            /\ m1.color[cur] = Red
            /\ m1.childs[cur][nd] = childs[cur][nd]
            /\ s1 # NIL
            /\ s1 = childs[s][nd]
            /\ m1.color[s1] = Black
            /\ pc' = "idle"
            /\ parent'[s] = parent[cur]
            /\ Slot(Mem', s) = Slot(Mem, cur)
            /\ color'[s] = Black
            /\ s \in Ancestors(Mem', cur, MaxCells)
            /\ TreeInvariants(Mem')
            /\ verdict' = "true"]_vars

\* C18 witness: a delete has ended after three rotations, the first of which
\* was that of a Red sibling.
C18_Witness ==
    /\ Completed
    /\ op.kind = "delete"
    /\ rotations = 3
    /\ verdict = "true"

\* An iteration of delete_reblance is about to run and finds a Black sibling
\* whose children are both Black or absent.
DelFixBlackNephews ==
    /\ pc = "del_fix"
    /\ FixSibling # NIL
    /\ color[FixSibling] = Black
    /\ \A d \in NodeDirection :
           color_or_black(Mem, childs[FixSibling][d]) = Black

\* C19: an iteration of delete_reblance that finds a Black sibling with both
\* children Black or absent changes no link and colours the sibling Red,
\* which evens out the Black counts below parent. If parent is the root or
\* Red the loop ends, parent is Black and every tree invariant holds;
\* otherwise nothing else is recoloured and the next iteration takes the
\* slot of parent under parent's parent as the deficit.
C19_BlackNephewsRecolourOrPropagate ==
    [][DelFixBlackNephews =>
        LET s == FixSibling
            p == cur
            stop == p = root \/ color[p] = Red
        IN  /\ parent' = parent
            /\ childs' = childs
            /\ root' = root
            /\ rotations' = rotations
            /\ color'[s] = Red
            /\ Cardinality(PathBlackCounts(Mem', p, MaxCells)) = 1
            /\ stop =>
                   /\ pc' = "idle"
                   /\ color' = [color EXCEPT ![s] = Red, ![p] = Black]
                   /\ TreeInvariants(Mem')
                   /\ verdict' = "true"
            /\ ~stop =>
                   /\ pc' = "del_fix"
                   /\ color' = [color EXCEPT ![s] = Red]
                   /\ cur' = parent[p]
                   /\ childs[cur'][nd'] = p]_vars

\* C19 witness: the recolouring has run below a Black parent that is not the
\* root, and the next iteration is about to take that parent's slot as the
\* deficit.
C19_Witness ==
    /\ pc = "del_fix"
    /\ rotations = 0
    /\ childs[cur][nd] # NIL
    /\ color[childs[cur][nd]] = Black
    /\ \E d \in NodeDirection :
           /\ childs[childs[cur][nd]][d] # NIL
           /\ color[childs[childs[cur][nd]][d]] = Red

\* The memory an iteration of delete_reblance works on once past its
\* Red-sibling rotation, if it has one.
DelFixPastRedSibling ==
    IF DelFixRedSibling
    THEN delete_red_sibling(Mem, cur, FixSibling, OtherDirection(nd))
    ELSE Mem

\* An iteration of delete_reblance is about to run, and the sibling it
\* inspects has a Red child.
DelFixRedNephew ==
    /\ pc = "del_fix"
    /\ LET m0 == DelFixPastRedSibling
           s == m0.childs[cur][OtherDirection(nd)]
       IN  /\ s # NIL
           /\ \E d \in NodeDirection :
                  color_or_black(m0, m0.childs[s][d]) = Red

\* C20: an iteration of delete_reblance whose sibling has a Red child ends
\* the loop with one or two rotations that bring the sibling, or its near
\* child, into parent's slot: the node in parent's slot has the colour
\* parent had, parent is its child on the deficit's side and Black, its
\* child on the other side is Black, and every tree invariant holds. No
\* delete does more than three rotations.
C20_RedNephewRotatesAndStops ==
    /\ [](op.kind = "delete" => rotations <= 3)
    /\ [][DelFixRedNephew =>
            LET m0 == DelFixPastRedSibling
                sd == OtherDirection(nd)
                s == m0.childs[cur][sd]
                top == parent'[cur]
            IN  /\ pc' = "idle"
                /\ rotations' - m0.rotations \in {1, 2}
                /\ top \in {s, m0.childs[s][nd]}
                /\ parent'[top] = m0.parent[cur]
                /\ Slot(Mem', top) = Slot(m0, cur)
                /\ color'[top] = m0.color[cur]
                /\ childs'[top][nd] = cur
                /\ color'[cur] = Black
                /\ childs'[top][sd] # NIL
                /\ color'[childs'[top][sd]] = Black
                /\ TreeInvariants(Mem')
                /\ verdict' = "true"]_vars

\* C20 witness: the delete of a leaf has ended with two rotations; the
\* leaf's parent, Black, and a Black node share the parent the rotations
\* gave them.
C20_Witness ==
    /\ Completed
    /\ op.kind = "delete"
    /\ rotations = 2
    /\ ChildrenOf(Mem, op.arg) = {}
    /\ parent[op.arg] # NIL
    /\ color[parent[op.arg]] = Black
    /\ parent[parent[op.arg]] # NIL
    /\ \A d \in NodeDirection :
           /\ childs[parent[parent[op.arg]]][d] # NIL
           /\ color[childs[parent[parent[op.arg]]][d]] = Black

\* The sibling an iteration of delete_reblance inspects: the one fetched
\* again when the iteration began with the rotation of a Red sibling.
DelFixInspected == DelFixPastRedSibling.childs[cur][OtherDirection(nd)]

\* This iteration of delete_reblance makes the preliminary rotation: it adds
\* two rotations to those made before it inspected the sibling.
DelFixPreRotates == rotations' = DelFixPastRedSibling.rotations + 2

\* C21 as stated: an iteration of delete_reblance whose sibling has a Red
\* child makes the preliminary rotation exactly when the sibling's child on
\* the side of the deficit is Black or absent, and the node that rotation
\* moves up past the sibling is Red after it.
C21_PreRotationByDeficitSideChild ==
    [][DelFixRedNephew =>
        LET m0 == DelFixPastRedSibling
            s == DelFixInspected
            m1 == delete_near_rotation(m0, s, m0.childs[s][nd], nd)
        IN  /\ DelFixPreRotates
                <=> color_or_black(m0, m0.childs[s][nd]) = Black
            /\ DelFixPreRotates => m1.color[m1.parent[s]] = Red]_vars

\* C21: an iteration of delete_reblance whose sibling has a Red child makes
\* the preliminary rotation exactly when the sibling's child on the
\* sibling's own side, away from the deficit, is Black or absent. The node
\* that rotation moves up past the sibling is the sibling's Red child on the
\* side of the deficit; after the rotation it carries the sibling's colour,
\* Black, and the sibling is its Red child on the side away from the
\* deficit. The node rotated up ends above parent; without the preliminary
\* rotation the sibling does.
C21_PreRotationByOuterChild ==
    [][DelFixRedNephew =>
        LET m0 == DelFixPastRedSibling
            sd == OtherDirection(nd)
            s == DelFixInspected
            near == m0.childs[s][nd]
            m1 == delete_near_rotation(m0, s, near, nd)
        IN  /\ DelFixPreRotates
                <=> color_or_black(m0, m0.childs[s][sd]) = Black
            /\ DelFixPreRotates =>
                   /\ near # NIL
                   /\ m0.color[near] = Red
                   /\ m0.color[s] = Black
                   /\ m1.ok
                   /\ m1.rotations = m0.rotations + 1
                   /\ m1.childs[cur][sd] = near
                   /\ m1.parent[s] = near
                   /\ m1.childs[near][sd] = s
                   /\ m1.color[near] = Black
                   /\ m1.color[s] = Red
                   /\ parent'[cur] = near
            /\ ~DelFixPreRotates => parent'[cur] = s]_vars

\* C21 witness: a delete that left three nodes has ended after two
\* rotations, the preliminary one and the one past parent: the node rotated
\* up twice is the root, above the removed node's parent and a second Black
\* node.
C21_Witness ==
    /\ Completed
    /\ op.kind = "delete"
    /\ rotations = 2
    /\ Cardinality(Linked) = 3
    /\ parent[op.arg] # NIL
    /\ parent[parent[op.arg]] = root
    /\ \A d \in NodeDirection :
           childs[root][d] # NIL /\ color[childs[root][d]] = Black

====
